---- MODULE Spec2Model ----
(***************************************************************************)
(* Model of tools/filter_leaks.py: run a command, capture its combined     *)
(* output, drop the leak blocks that match a suppression pattern, print    *)
(* the rest and derive the exit status.                                    *)
(*                                                                         *)
(* Text is a sequence of tokens.  A token stands for a literal piece of    *)
(* text the script looks for ("Leak: ", "Call stack:", the words of the    *)
(* suppression patterns, a whitespace character, the newline) or for any   *)
(* other text.  A line is a text without the newline token.                *)
(***************************************************************************)
EXTENDS Integers, Sequences, FiniteSets, TLC

\* ------------------------------------------------------------------ text
NL == "\n"
LK == "Leak: "
CS == "Call stack:"
SP == " "
NS == "NSArray"
CF == "CoreFoundation"
AX == "AXObserverCookie"
HI == "HIServices"
USAGE == "Usage: filter_leaks.py <command> [args...]"
ERRMSG == "Error running filter script: "

\* The longest captured output the model enumerates, in lines.
MaxLines == 4

\* The lines the child may print.
LineSet ==
    { <<>>,              \* empty line
      <<SP>>,            \* whitespace-only line
      <<LK, NS>>,        \* a leak the patterns do not match
      <<LK, NS, CF>>,    \* a leak the first pattern matches
      <<CF>>,            \* ordinary text (a stack frame, a summary line)
      <<NS, CF>>,        \* a frame the first pattern matches
      <<SP, CS>>,        \* an indented "Call stack:" line
      <<CF, LK>>,        \* "Leak: " in the middle of a line
      <<AX, HI>> }       \* a frame the second pattern matches

\* "\n".join(parts)
RECURSIVE Join(_)
Join(parts) ==
    IF Len(parts) = 0 THEN <<>>
    ELSE IF Len(parts) = 1 THEN parts[1]
    ELSE parts[1] \o <<NL>> \o Join(Tail(parts))

\* text.split('\n')
RECURSIVE Split(_)
Split(text) ==
    LET nls == { k \in 1..Len(text) : text[k] = NL }
    IN IF nls = {} THEN <<text>>
       ELSE LET k == CHOOSE m \in nls : \A n \in nls : m <= n
            IN <<SubSeq(text, 1, k - 1)>> \o Split(SubSeq(text, k + 1, Len(text)))

\* line.startswith(prefix), for a one-token prefix
StartsWith(line, prefix) == Len(line) >= 1 /\ line[1] = prefix

\* line.strip()
RECURSIVE Strip(_)
Strip(line) ==
    IF Len(line) = 0 THEN line
    ELSE IF line[1] = SP THEN Strip(Tail(line))
    ELSE IF line[Len(line)] = SP THEN Strip(SubSeq(line, 1, Len(line) - 1))
    ELSE line

\* needle in text, for a one-token needle
Contains(text, needle) == \E k \in 1..Len(text) : text[k] = needle

\* The suppression list: each pattern is  first.*second
suppressions == << <<NS, CF>>, <<AX, HI>> >>

\* re.match in place of re.search: the pattern must match at the start.
re_match(s, block_str) ==
    \E b \in 2..Len(block_str) :
        /\ block_str[1] = s[1]
        /\ block_str[b] = s[2]
        /\ \A k \in 2..(b - 1) : block_str[k] # NL

\* re.search(s, block_str): "." does not match the newline
re_search(s, block_str) ==
    \E a \in 1..Len(block_str) : \E b \in 1..Len(block_str) :
        /\ a < b
        /\ block_str[a] = s[1]
        /\ block_str[b] = s[2]
        /\ \A k \in (a + 1)..(b - 1) : block_str[k] # NL

\* any(re.search(s, block_str) for s in suppressions)
AnySuppression(block_str) ==
    \E n \in 1..Len(suppressions) : re_search(suppressions[n], block_str)

\* ----------------------------------------------------------------- state
VARIABLES
    pc,               \* where main() is
    argc,             \* len(sys.argv)
    spawned,          \* child processes started
    returncode,       \* process.returncode
    output,           \* process.stdout
    lines,            \* output.split('\n')
    i,                \* index of the line the for loop takes next
    current_leak,     \* the accumulator
    filtered_output,  \* the output sequence
    final_output,     \* "\n".join(filtered_output)
    stdout,           \* what the script has written, one entry per write
    exit_code,        \* <<>> while running, <<status>> once exited
    closed            \* log of the blocks handed to the suppression check

vars == << pc, argc, spawned, returncode, output, lines, i, current_leak, filtered_output,
           final_output, stdout, exit_code, closed >>

filterVars == << lines, i, current_leak, filtered_output, final_output, closed >>

\* Every captured output of at most MaxLines lines over LineSet.
RECURSIVE LineSeqs(_)
LineSeqs(n) ==
    IF n = 0 THEN { <<>> }
    ELSE LET shorter == LineSeqs(n - 1)
         IN shorter \cup { Append(s, l) : s \in { t \in shorter : Len(t) = n - 1 }, l \in LineSet }

Captured == { Join(ls) : ls \in LineSeqs(MaxLines) \ { <<>> } }

\* The longest captured output of the runs checked for termination, in lines.
MaxFairLines == 3

CapturedShort == { Join(ls) : ls \in LineSeqs(MaxFairLines) \ { <<>> } }

\* CloseBlock with a suppressed block losing only its first line.
CloseBlockPartial(fo, block) ==
    LET block_str == Join(block)
    IN IF ~AnySuppression(block_str) THEN Append(fo, block_str)
       ELSE IF Len(block) > 1 THEN Append(fo, Join(Tail(block))) ELSE fo

\* CloseBlock with all() in place of any().
CloseBlockAll(fo, block) ==
    LET block_str == Join(block)
    IN IF ~(\A n \in 1..Len(suppressions) : re_search(suppressions[n], block_str))
       THEN Append(fo, block_str) ELSE fo

\* The close logic shared by lines 49-53, 60-64 and 70-73.
CloseBlock(fo, block) ==
    LET block_str == Join(block)
    IN IF ~AnySuppression(block_str) THEN Append(fo, block_str) ELSE fo

\* The record the log keeps of one close.
Closure(block, last, by) ==
    [ first |-> last - Len(block) + 1, last |-> last, text |-> Join(block), by |-> by ]

Init ==
    /\ pc = "start"
    /\ argc \in {1, 2}
    /\ spawned = 0
    /\ returncode = 0
    /\ output = <<>>
    /\ lines = <<>>
    /\ i = 1
    /\ current_leak = <<>>
    /\ filtered_output = <<>>
    /\ final_output = <<>>
    /\ stdout = <<>>
    /\ exit_code = <<>>
    /\ closed = <<>>

\* lines 7-9
Usage ==
    /\ pc = "start"
    /\ argc < 2
    /\ stdout' = Append(stdout, <<USAGE, NL>>)
    /\ exit_code' = <<1>>
    /\ pc' = "exited"
    /\ UNCHANGED << argc, returncode, spawned, output, filterVars >>

\* EnterTry after a check  len(sys.argv) < 1.
EnterTryOffByOne ==
    /\ pc = "start"
    /\ argc >= 1
    /\ pc' = "run"
    /\ UNCHANGED << argc, returncode, spawned, output, stdout, exit_code, filterVars >>

\* lines 11-19
EnterTry ==
    /\ pc = "start"
    /\ argc >= 2
    /\ pc' = "run"
    /\ UNCHANGED << argc, returncode, spawned, output, stdout, exit_code, filterVars >>

\* lines 28-33, the child is started
Spawn ==
    /\ pc = "run"
    /\ spawned' = spawned + 1
    /\ pc' = "wait"
    /\ UNCHANGED << argc, returncode, output, stdout, exit_code, filterVars >>

\* The error handled by the handler of lines 86-87.
OnErrorAsInterrupt(out) == [ stdout |-> out, status |-> 130 ]

\* what the handler of lines 88-90 writes and returns
OnError(out) == [ stdout |-> Append(out, <<ERRMSG, "e", NL>>), status |-> 1 ]

\* lines 28-33 raising (the command cannot be started), lines 88-90
LaunchError ==
    /\ pc = "run"
    /\ stdout' = OnError(stdout).stdout
    /\ exit_code' = <<OnError(stdout).status>>
    /\ pc' = "failed"
    /\ UNCHANGED << argc, returncode, spawned, output, filterVars >>

\* The exit codes a child may end with.
ChildCodes == {0, 1}

\* lines 28-44: the child runs to its end, its output, one of texts, is
\* captured and split
CaptureFrom(texts) ==
    /\ pc = "wait"
    /\ \E text \in texts :
        /\ output' = text
        /\ lines' = Split(text)
    /\ returncode' \in ChildCodes
    /\ i' = 1
    /\ current_leak' = <<>>
    /\ filtered_output' = <<>>
    /\ pc' = "loop"
    /\ UNCHANGED << argc, spawned, final_output, stdout, exit_code, closed >>

\* lines 28-44
Capture == CaptureFrom(Captured)

\* lines 28-44, for the captured outputs of the runs checked for termination
CaptureShort == CaptureFrom(CapturedShort)

\* lines 28-33 raising while the output is read (it cannot be decoded),
\* lines 88-90
CaptureError ==
    /\ pc = "wait"
    /\ stdout' = OnError(stdout).stdout
    /\ exit_code' = <<OnError(stdout).status>>
    /\ pc' = "failed"
    /\ UNCHANGED << argc, returncode, spawned, output, filterVars >>

\* LeakLine closing the open block with the new line already in it.
LeakLineLate ==
    /\ pc = "loop"
    /\ i <= Len(lines)
    /\ StartsWith(lines[i], LK)
    /\ IF current_leak # <<>>
       THEN /\ filtered_output' = CloseBlock(filtered_output, Append(current_leak, lines[i]))
            /\ closed' = Append(closed, Closure(Append(current_leak, lines[i]), i, "leak"))
       ELSE UNCHANGED << filtered_output, closed >>
    /\ current_leak' = <<lines[i]>>
    /\ i' = i + 1
    /\ UNCHANGED << pc, argc, returncode, spawned, output, lines, final_output, stdout, exit_code >>

\* lines 47-55
LeakLine ==
    /\ pc = "loop"
    /\ i <= Len(lines)
    /\ StartsWith(lines[i], LK)
    /\ IF current_leak # <<>>
       THEN /\ filtered_output' = CloseBlock(filtered_output, current_leak)
            /\ closed' = Append(closed, Closure(current_leak, i - 1, "leak"))
       ELSE UNCHANGED << filtered_output, closed >>
    /\ current_leak' = <<lines[i]>>
    /\ i' = i + 1
    /\ UNCHANGED << pc, argc, returncode, spawned, output, lines, final_output, stdout, exit_code >>

\* Accumulates without the second disjunct of line 56.
AccumulatesOnlyCallStack(line, acc) == StartsWith(Strip(line), CS)

\* Accumulates testing the line of line 56 unstripped.
AccumulatesNoStrip(line, acc) ==
    StartsWith(Strip(line), CS) \/ (acc # <<>> /\ line # <<>>)

\* the condition of line 56
Accumulates(line, acc) ==
    StartsWith(Strip(line), CS) \/ (acc # <<>> /\ Strip(line) # <<>>)

\* lines 56-57
AccumulateLine ==
    /\ pc = "loop"
    /\ i <= Len(lines)
    /\ ~StartsWith(lines[i], LK)
    /\ Accumulates(lines[i], current_leak)
    /\ current_leak' = Append(current_leak, lines[i])
    /\ i' = i + 1
    /\ UNCHANGED << pc, argc, returncode, spawned, output, lines, filtered_output, final_output,
                    stdout, exit_code, closed >>

\* BlankLine closing the block without the blank line.
BlankLineDropsBlank ==
    /\ pc = "loop"
    /\ i <= Len(lines)
    /\ ~StartsWith(lines[i], LK)
    /\ ~Accumulates(lines[i], current_leak)
    /\ Strip(lines[i]) = <<>> /\ current_leak # <<>>
    /\ filtered_output' = CloseBlock(filtered_output, current_leak)
    /\ closed' = Append(closed, Closure(current_leak, i - 1, "blank"))
    /\ current_leak' = <<>>
    /\ i' = i + 1
    /\ UNCHANGED << pc, argc, returncode, spawned, output, lines, final_output, stdout, exit_code >>

\* lines 58-64
BlankLine ==
    /\ pc = "loop"
    /\ i <= Len(lines)
    /\ ~StartsWith(lines[i], LK)
    /\ ~Accumulates(lines[i], current_leak)
    /\ Strip(lines[i]) = <<>> /\ current_leak # <<>>
    /\ LET block == Append(current_leak, lines[i])
       IN /\ filtered_output' = CloseBlock(filtered_output, block)
          /\ closed' = Append(closed, Closure(block, i, "blank"))
    /\ current_leak' = <<>>
    /\ i' = i + 1
    /\ UNCHANGED << pc, argc, returncode, spawned, output, lines, final_output, stdout, exit_code >>

\* lines 66-67
PassThrough(fo, acc, line) == IF acc = <<>> THEN Append(fo, line) ELSE fo

\* OtherLine stepping over the line that follows.
OtherLineSkips ==
    /\ pc = "loop"
    /\ i <= Len(lines)
    /\ ~StartsWith(lines[i], LK)
    /\ ~Accumulates(lines[i], current_leak)
    /\ ~(Strip(lines[i]) = <<>> /\ current_leak # <<>>)
    /\ filtered_output' = PassThrough(filtered_output, current_leak, lines[i])
    /\ i' = i + 2
    /\ UNCHANGED << pc, argc, returncode, spawned, output, lines, current_leak, final_output,
                    stdout, exit_code, closed >>

\* OtherLine forwarding a pass-through line to standard output at once.
OtherLineStreams ==
    /\ pc = "loop"
    /\ i <= Len(lines)
    /\ ~StartsWith(lines[i], LK)
    /\ ~Accumulates(lines[i], current_leak)
    /\ ~(Strip(lines[i]) = <<>> /\ current_leak # <<>>)
    /\ filtered_output' = PassThrough(filtered_output, current_leak, lines[i])
    /\ stdout' = Append(stdout, lines[i] \o <<NL>>)
    /\ i' = i + 1
    /\ UNCHANGED << pc, argc, returncode, spawned, output, lines, current_leak, final_output,
                    exit_code, closed >>

\* lines 65-67
OtherLine ==
    /\ pc = "loop"
    /\ i <= Len(lines)
    /\ ~StartsWith(lines[i], LK)
    /\ ~Accumulates(lines[i], current_leak)
    /\ ~(Strip(lines[i]) = <<>> /\ current_leak # <<>>)
    /\ filtered_output' = PassThrough(filtered_output, current_leak, lines[i])
    /\ i' = i + 1
    /\ UNCHANGED << pc, argc, returncode, spawned, output, lines, current_leak, final_output,
                    stdout, exit_code, closed >>

\* Flush without the check of lines 69-73: the open block is forgotten.
FlushForgets ==
    /\ pc = "loop"
    /\ i > Len(lines)
    /\ pc' = "join"
    /\ UNCHANGED << argc, returncode, spawned, output, lines, i, current_leak, filtered_output,
                    final_output, stdout, exit_code, closed >>

\* lines 69-73
Flush ==
    /\ pc = "loop"
    /\ i > Len(lines)
    /\ IF current_leak # <<>>
       THEN /\ filtered_output' = CloseBlock(filtered_output, current_leak)
            /\ closed' = Append(closed, Closure(current_leak, Len(lines), "eof"))
       ELSE UNCHANGED << filtered_output, closed >>
    /\ pc' = "join"
    /\ UNCHANGED << argc, returncode, spawned, output, lines, i, current_leak, final_output,
                    stdout, exit_code >>

\* PrintOutput printing the elements of the output sequence one by one.
PrintOutputPerElement ==
    /\ pc = "join"
    /\ final_output' = Join(filtered_output)
    /\ stdout' = stdout \o [ k \in 1..Len(filtered_output) |-> filtered_output[k] \o <<NL>> ]
    /\ pc' = "decide"
    /\ UNCHANGED << argc, returncode, spawned, output, lines, i, current_leak, filtered_output,
                    exit_code, closed >>

\* lines 75-76
PrintOutput ==
    /\ pc = "join"
    /\ final_output' = Join(filtered_output)
    /\ stdout' = Append(stdout, Join(filtered_output) \o <<NL>>)
    /\ pc' = "decide"
    /\ UNCHANGED << argc, returncode, spawned, output, lines, i, current_leak, filtered_output,
                    exit_code, closed >>

\* line 76 raising before anything is written (the text cannot be encoded),
\* lines 88-90
PrintError ==
    /\ pc = "join"
    /\ final_output' = Join(filtered_output)
    /\ stdout' = OnError(stdout).stdout
    /\ exit_code' = <<OnError(stdout).status>>
    /\ pc' = "failed"
    /\ UNCHANGED << argc, returncode, spawned, output, lines, i, current_leak,
                    filtered_output, closed >>

\* ExitStatus looking for "Leak: " at the start of a line only.
ExitStatusPrefix(text) ==
    IF \E k \in 1..Len(Split(text)) : StartsWith(Split(text)[k], LK) THEN 1 ELSE 0

\* lines 81-84
ExitStatus(text) == IF Contains(text, LK) THEN 1 ELSE 0

\* Exit deciding on the captured text instead of the filtered text.
ExitOnCaptured ==
    /\ pc = "decide"
    /\ exit_code' = <<ExitStatus(output)>>
    /\ pc' = "exited"
    /\ UNCHANGED << argc, returncode, spawned, output, stdout, filterVars >>

\* Exit handing on the child's exit code.
ExitPropagates ==
    /\ pc = "decide"
    /\ exit_code' = <<returncode>>
    /\ pc' = "exited"
    /\ UNCHANGED << argc, returncode, spawned, output, stdout, filterVars >>

\* lines 81-84
Exit ==
    /\ pc = "decide"
    /\ exit_code' = <<ExitStatus(final_output)>>
    /\ pc' = "exited"
    /\ UNCHANGED << argc, returncode, spawned, output, stdout, filterVars >>

\* The interrupt handled by the handler of lines 88-90.
OnInterruptAsError(out) ==
    [ stdout |-> Append(out, <<ERRMSG, "e", NL>>), status |-> 1 ]

\* what the handler of lines 86-87 writes and returns
OnInterrupt(out) == [ stdout |-> out, status |-> 130 ]

\* KeyboardInterrupt raised anywhere inside the try block, lines 19-87
Interrupt ==
    /\ pc \in {"run", "wait", "loop", "join", "decide"}
    /\ stdout' = OnInterrupt(stdout).stdout
    /\ exit_code' = <<OnInterrupt(stdout).status>>
    /\ pc' = "interrupted"
    /\ UNCHANGED << argc, returncode, spawned, output, filterVars >>

Next ==
    \/ Usage
    \/ EnterTry
    \/ Spawn
    \/ LaunchError
    \/ Capture
    \/ CaptureError
    \/ LeakLine
    \/ AccumulateLine
    \/ BlankLine
    \/ OtherLine
    \/ Flush
    \/ PrintOutput
    \/ PrintError
    \/ Exit
    \/ Interrupt

Spec == Init /\ [][Next]_vars

FairNext ==
    \/ Usage
    \/ EnterTry
    \/ Spawn
    \/ LaunchError
    \/ CaptureShort
    \/ CaptureError
    \/ LeakLine
    \/ AccumulateLine
    \/ BlankLine
    \/ OtherLine
    \/ Flush
    \/ PrintOutput
    \/ PrintError
    \/ Exit
    \/ Interrupt

\* The script is sequential, the child ends and every call returns or raises:
\* a step that can be taken is taken.
FairSpec == Init /\ [][FairNext]_vars /\ WF_vars(FairNext)

\* ---------------------------------------------------------------- claims
\* The run went through filtering and printing and took the exit of lines 81-84.
Completed == pc = "exited" /\ lines # <<>>

\* The elements of seq at the indices in keep, in order.
RECURSIVE SelFrom(_, _, _)
SelFrom(seq, keep, k) ==
    IF k > Len(seq) THEN <<>>
    ELSE (IF k \in keep THEN <<seq[k]>> ELSE <<>>) \o SelFrom(seq, keep, k + 1)

\* The lines of an output sequence.
LinesOf(fo) == IF fo = <<>> THEN <<>> ELSE Split(Join(fo))

\* The input lines left when the closed blocks D are deleted.
Without(D) ==
    SelFrom(lines, { k \in 1..Len(lines) :
                        \A d \in D : k \notin closed[d].first..closed[d].last }, 1)

\* The closed blocks a suppression pattern matches.
Matched == { d \in 1..Len(closed) : AnySuppression(closed[d].text) }

\* C1: once filtering is over, the closed blocks are disjoint runs of
\* consecutive input lines, in input order, and the lines of the filtered
\* output (and of the printed text, when there is any) are the input lines
\* with some whole closed blocks deleted: nothing else is removed, reordered
\* or duplicated.
C1_OutputIsInputMinusWholeBlocks ==
    pc \in {"join", "decide", "exited"} /\ lines # <<>> =>
        /\ \A d \in 1..Len(closed) :
              /\ 1 <= closed[d].first /\ closed[d].first <= closed[d].last
              /\ closed[d].last <= Len(lines)
              /\ closed[d].text = Join(SubSeq(lines, closed[d].first, closed[d].last))
              /\ d > 1 => closed[d - 1].last < closed[d].first
        /\ \E D \in SUBSET (1..Len(closed)) :
              /\ LinesOf(filtered_output) = Without(D)
              /\ (pc # "join" /\ filtered_output # <<>>) => Split(final_output) = Without(D)

\* C1 witness: a finished run with a deleted block, a kept block and a
\* pass-through line.
C1_Witness ==
    /\ Completed
    /\ \E d \in 1..Len(closed) : d \in Matched
    /\ \E d \in 1..Len(closed) : d \notin Matched
    /\ Len(LinesOf(filtered_output)) < Len(lines)
    /\ \E k \in 1..Len(lines) : \A d \in 1..Len(closed) : k \notin closed[d].first..closed[d].last

\* C2: every step that closes a block (the log grows) appends the block's
\* joined text to the output exactly when no suppression pattern matches that
\* text, and otherwise leaves the output as it was, whatever happened to the
\* blocks closed before.
C2_ClosedBlockKeptIffUnmatched ==
    [][ Len(closed') = Len(closed) + 1 =>
          LET c == closed'[Len(closed')]
          IN /\ SubSeq(closed', 1, Len(closed)) = closed
             /\ c.by \in {"leak", "blank", "eof"}
             /\ filtered_output' =
                  IF \E n \in 1..Len(suppressions) : re_search(suppressions[n], c.text)
                  THEN filtered_output
                  ELSE Append(filtered_output, c.text) ]_vars

\* C2 witness: blocks closed in each of the three ways, one suppressed right
\* after one that was kept.
C2_Witness ==
    /\ Len(closed) >= 2
    /\ 1 \notin Matched /\ 2 \in Matched
    /\ closed[1].by = "blank" /\ closed[2].by = "eof"

\* A leak block that survived suppression.
Survivors == { d \in 1..Len(closed) : StartsWith(closed[d].text, LK) /\ d \notin Matched }

\* C3 as stated: status 0 exactly when no leak block survived, 1 exactly when
\* one did.
C3_Original ==
    Completed => exit_code = << IF Survivors = {} THEN 0 ELSE 1 >>

\* C3 amended: status 1 exactly when "Leak: " occurs in an input line that is
\* not part of a suppressed block, so always when a leak block survived, and
\* status 0 otherwise; the text of suppressed blocks has no influence.
C3_ExitStatusFromSurvivingLines ==
    Completed =>
        /\ exit_code = << IF \E k \in 1..Len(Without(Matched)) : Contains(Without(Matched)[k], LK)
                          THEN 1 ELSE 0 >>
        /\ Survivors # {} => exit_code = <<1>>

\* C3 witness: a finished run whose only leak block was suppressed and that
\* exits 0, the input holding "Leak: ".
C3_Witness ==
    /\ Completed
    /\ exit_code = <<0>>
    /\ Matched # {} /\ Survivors = {}
    /\ Contains(output, LK)

\* C4: the status is 1 exactly when "Leak: " occurs anywhere in the printed
\* text, and 0 otherwise.
C4_ExitStatusIsSubstringTest ==
    Completed =>
        /\ Len(stdout) = 1
        /\ stdout[1] = final_output \o <<NL>>
        /\ exit_code = << IF \E k \in 1..Len(stdout[1]) : stdout[1][k] = LK THEN 1 ELSE 0 >>

\* C4 witness: status 1 with "Leak: " at the start of no printed line.
C4_Witness ==
    /\ Completed
    /\ exit_code = <<1>>
    /\ \A k \in 1..Len(Split(final_output)) : ~StartsWith(Split(final_output)[k], LK)

\* C5 as stated: when no captured line starts with "Leak: ", the filtered
\* output, as collected and as printed, is the captured output, and the
\* status is 0.
C5_Original ==
    (lines # <<>> /\ \A k \in 1..Len(lines) : ~StartsWith(lines[k], LK)) =>
        /\ pc \in {"join", "decide", "exited"} => Join(filtered_output) = output
        /\ pc \in {"decide", "exited"} => final_output = output
        /\ pc = "exited" => exit_code = <<0>>

\* The step of the loop that takes line i.
TakesLine == pc = "loop" /\ i <= Len(lines) /\ i' = i + 1

\* C6 as stated: with the accumulator empty, a line that does not start with
\* "Leak: " goes straight to the output and the accumulator stays empty, and
\* every block handed to the suppression check starts with a "Leak: " line.
C6_Original ==
    [][ /\ (TakesLine /\ current_leak = <<>> /\ ~StartsWith(lines[i], LK)) =>
              /\ filtered_output' = Append(filtered_output, lines[i])
              /\ current_leak' = <<>>
        /\ \A d \in 1..Len(closed') : StartsWith(closed'[d].text, LK) ]_vars

\* The captured lines are one leak block and then blank lines only.
OneBlockThenBlank(ls) ==
    \E n \in 1..(Len(ls) - 1) :
        /\ StartsWith(ls[1], LK)
        /\ \A k \in 2..n : Strip(ls[k]) # <<>> /\ ~StartsWith(ls[k], LK)
        /\ \A k \in (n + 1)..Len(ls) : Strip(ls[k]) = <<>>

\* Some line of ls, taken alone, matches some pattern of the list.
MatchesOnSomeLine(ls) ==
    \E k \in 1..Len(ls) : \E n \in 1..Len(suppressions) :
        \E a \in 1..Len(ls[k]) : \E b \in (a + 1)..Len(ls[k]) :
            ls[k][a] = suppressions[n][1] /\ ls[k][b] = suppressions[n][2]

\* C7: a captured output that is one leak block matching a suppression
\* pattern, followed by blank lines only, is printed without "Leak: " and the
\* status is 0.
C7_SingleSuppressedBlock ==
    (Completed /\ OneBlockThenBlank(lines) /\ MatchesOnSomeLine(lines)) =>
        /\ ~Contains(final_output, LK)
        /\ ~Contains(stdout[Len(stdout)], LK)
        /\ exit_code = <<0>>

\* C7 witness: such a run, the block having a call stack.
C7_Witness ==
    /\ Completed /\ OneBlockThenBlank(lines) /\ MatchesOnSomeLine(lines)
    /\ Len(closed) = 1 /\ closed[1].last > 2
    /\ exit_code = <<0>>

\* The block the end of the stream closed, if any.
AtEof == { d \in 1..Len(closed) : closed[d].by = "eof" }

\* C8: when the lines run out with the accumulator non-empty, that step hands
\* the accumulated lines to the suppression check once, and appends them to
\* the output exactly when no pattern matches; in the finished run the status
\* is 1 exactly when "Leak: " is in the output that preceded the block or the
\* block was kept and holds "Leak: ".
C8_EndOfStreamCloses ==
    /\ [][ (pc = "loop" /\ pc' = "join" /\ current_leak # <<>>) =>
              /\ closed' = Append(closed, [ first |-> Len(lines) - Len(current_leak) + 1,
                                            last |-> Len(lines),
                                            text |-> Join(current_leak),
                                            by |-> "eof" ])
              /\ filtered_output' =
                   IF AnySuppression(Join(current_leak)) THEN filtered_output
                   ELSE Append(filtered_output, Join(current_leak)) ]_vars
    /\ [](Cardinality(AtEof) <= 1)
    /\ []((Completed /\ AtEof # {}) =>
            LET c == closed[Len(closed)]
                kept == ~AnySuppression(c.text)
                before == IF kept THEN SubSeq(filtered_output, 1, Len(filtered_output) - 1)
                          ELSE filtered_output
            IN /\ c.by = "eof"
               /\ kept => filtered_output # <<>> /\ filtered_output[Len(filtered_output)] = c.text
               /\ exit_code = << IF \/ \E k \in 1..Len(before) : Contains(before[k], LK)
                                    \/ kept /\ Contains(c.text, LK)
                                 THEN 1 ELSE 0 >>)

\* C8 witness: a finished run whose last block, unterminated, was kept and
\* made the status 1, an earlier block having been suppressed.
C8_Witness ==
    /\ Completed
    /\ AtEof # {}
    /\ Len(closed) \notin Matched
    /\ Matched # {}
    /\ exit_code = <<1>>
    /\ closed[Len(closed)].first < closed[Len(closed)].last

\* C9: without a command argument no child is spawned and no line is
\* captured or filtered; the script can only print the usage message and
\* exit with status 1.
C9_NoCommandNoChild ==
    argc < 2 =>
        /\ spawned = 0 /\ output = <<>> /\ lines = <<>> /\ i = 1
        /\ current_leak = <<>> /\ filtered_output = <<>> /\ closed = <<>>
        /\ \/ pc = "start" /\ stdout = <<>> /\ exit_code = <<>> /\ ENABLED Usage
           \/ pc = "exited" /\ stdout = << <<USAGE, NL>> >> /\ exit_code = <<1>>

\* C9 witness: the usage exit.
C9_Witness == argc < 2 /\ pc = "exited" /\ stdout = << <<USAGE, NL>> >>

\* C10: an interrupt that arrives before the final print, while the child is
\* started or runs or while the lines are filtered, ends the script with
\* status 130 and nothing written, and no step follows an interrupt.
C10_InterruptExits130Silently ==
    [][ /\ (pc \in {"run", "wait", "loop", "join"} /\ pc' = "interrupted") =>
              exit_code' = <<130>> /\ stdout' = <<>>
        /\ pc # "interrupted" ]_vars

\* C10 witness: interrupted in the middle of filtering, a block being open
\* and output pending.
C10_Witness ==
    /\ pc = "interrupted"
    /\ exit_code = <<130>>
    /\ stdout = <<>>
    /\ i > 1 /\ i <= Len(lines)
    /\ current_leak # <<>> /\ filtered_output # <<>>

\* The diagnostic line of lines 88-90.
Diagnostic == <<ERRMSG, "e", NL>>

\* C11: a step that ends in the error handler adds exactly the one diagnostic
\* line to what was written and sets status 1, no step follows it (so no
\* filtered text is printed after it), and a run that ends through the exit
\* of lines 81-84 or the usage exit has written no diagnostic line.
C11_ErrorPrintsDiagnosticAndExits1 ==
    /\ [][ /\ pc' = "failed" =>
                /\ stdout' = Append(stdout, Diagnostic)
                /\ Cardinality({ k \in 1..Len(stdout') : StartsWith(stdout'[k], ERRMSG) }) = 1
                /\ \A k \in 1..Len(stdout') : stdout'[k] # final_output' \o <<NL>>
                /\ exit_code' = <<1>>
           /\ pc # "failed" ]_vars
    /\ [](pc = "exited" => \A k \in 1..Len(stdout) : ~StartsWith(stdout[k], ERRMSG))

\* C11 witness: the print failed with filtered output at hand, blocks closed.
C11_Witness ==
    /\ pc = "failed"
    /\ filtered_output # <<>> /\ closed # <<>>
    /\ stdout = <<Diagnostic>>
    /\ exit_code = <<1>>

\* The output sequence the loop and the flush leave for the lines ls, taken
\* from line k on with accumulator acc and output sequence fo.
RECURSIVE FilterFrom(_, _, _, _)
FilterFrom(ls, k, acc, fo) ==
    IF k > Len(ls) THEN (IF acc # <<>> THEN CloseBlock(fo, acc) ELSE fo)
    ELSE IF StartsWith(ls[k], LK)
         THEN FilterFrom(ls, k + 1, <<ls[k]>>, IF acc # <<>> THEN CloseBlock(fo, acc) ELSE fo)
    ELSE IF Accumulates(ls[k], acc)
         THEN FilterFrom(ls, k + 1, Append(acc, ls[k]), fo)
    ELSE IF Strip(ls[k]) = <<>> /\ acc # <<>>
         THEN FilterFrom(ls, k + 1, <<>>, CloseBlock(fo, Append(acc, ls[k])))
    ELSE FilterFrom(ls, k + 1, acc, PassThrough(fo, acc, ls[k]))

\* C12: what a finished run printed and the status it exited with are
\* functions of the captured text alone, so two runs that captured the same
\* text print the same and exit the same whatever the child's exit codes were.
C12_ChildExitCodeNotPropagated ==
    Completed =>
        LET text == Join(FilterFrom(Split(output), 1, <<>>, <<>>))
        IN /\ stdout = << text \o <<NL>> >>
           /\ exit_code = << IF Contains(text, LK) THEN 1 ELSE 0 >>

\* C12 witness: a finished run whose status differs from the child's exit code.
C12_Witness ==
    /\ Completed
    /\ returncode = 1
    /\ exit_code = <<0>>
    /\ closed # <<>>

\* C13: until the final print nothing is on standard output; the print is one
\* write of the joined output sequence, made when the child has been started
\* once and its output captured, every line has been taken and the open block
\* flushed, and no status decided; the exit of lines 81-84 comes after it and
\* writes nothing.
C13_SingleWriteAfterFiltering ==
    /\ [](pc \in {"run", "wait", "loop", "join"} => stdout = <<>>)
    /\ [][ (stdout' # stdout /\ pc' \notin {"failed", "exited"}) =>
              /\ pc = "join" /\ pc' = "decide"
              /\ spawned = 1 /\ lines = Split(output)
              /\ i = Len(lines) + 1
              /\ current_leak # <<>> =>
                    /\ closed # <<>>
                    /\ closed[Len(closed)].by = "eof"
                    /\ closed[Len(closed)].text = Join(current_leak)
              /\ stdout = <<>>
              /\ stdout' = << Join(filtered_output) \o <<NL>> >>
              /\ exit_code = <<>> /\ exit_code' = <<>> ]_vars
    /\ [][ (pc = "decide" /\ pc' = "exited") =>
              /\ stdout = << final_output \o <<NL>> >>
              /\ stdout' = stdout ]_vars

\* C13 witness: the print done, blocks having been closed in the loop and by
\* the flush, the status still open.
C13_Witness ==
    /\ pc = "decide"
    /\ exit_code = <<>>
    /\ Len(stdout) = 1
    /\ Len(closed) >= 2 /\ closed[Len(closed)].by = "eof"
    /\ Len(filtered_output) >= 2

\* The script has ended.
Terminated == pc \in {"exited", "failed", "interrupted"}

\* C14 as stated: whichever way the script ends, it has spawned exactly one
\* child and written exactly one block of text.
C14_Original ==
    Terminated => spawned = 1 /\ Len(stdout) = 1

\* C14 amended: at most one child is spawned and at most one block of text is
\* written; a run that completes filtering and printing spawned exactly one
\* child and wrote exactly one block; the usage exit spawned none and wrote
\* one block; an error exit wrote one block; an interrupted run wrote nothing
\* or, interrupted after the print, the filtered text.
C14_AtMostOneChildOneWrite ==
    /\ spawned <= 1 /\ Len(stdout) <= 1
    /\ Completed => spawned = 1 /\ Len(stdout) = 1
    /\ (pc = "exited" /\ ~Completed) => spawned = 0 /\ stdout = << <<USAGE, NL>> >>
    /\ pc = "failed" => stdout = <<Diagnostic>>
    /\ pc = "interrupted" => stdout = <<>> \/ stdout = << final_output \o <<NL>> >>

\* C14 witness: interrupted while the child ran: one child, nothing written.
C14_Witness ==
    pc = "interrupted" /\ spawned = 1 /\ lines = <<>> /\ stdout = <<>>

\* C15: a "Leak: " line always becomes the whole new accumulator; when a block
\* was open, the same step hands exactly the lines accumulated before it to
\* the suppression check and appends them to the output when no pattern
\* matches; so no closed block holds a "Leak: " line after its first line.
C15_LeakLineClosesThenOpens ==
    /\ [][ (TakesLine /\ StartsWith(lines[i], LK)) =>
              /\ current_leak' = <<lines[i]>>
              /\ IF current_leak # <<>>
                 THEN /\ closed' = Append(closed, [ first |-> i - Len(current_leak),
                                                    last |-> i - 1,
                                                    text |-> Join(current_leak),
                                                    by |-> "leak" ])
                      /\ filtered_output' =
                           IF AnySuppression(Join(current_leak)) THEN filtered_output
                           ELSE Append(filtered_output, Join(current_leak))
                 ELSE closed' = closed /\ filtered_output' = filtered_output ]_vars
    /\ [](\A d \in 1..Len(closed) :
            \A k \in 2..Len(Split(closed[d].text)) : ~StartsWith(Split(closed[d].text)[k], LK))

\* C15 witness: two leak blocks with no blank line between them, the first
\* kept although the line that closed it matches a pattern, the second
\* suppressed.
C15_Witness ==
    /\ Len(closed) >= 2
    /\ closed[1].by = "leak" /\ 1 \notin Matched
    /\ closed[2].first = closed[1].last + 1
    /\ AnySuppression(lines[closed[2].first])
    /\ 2 \in Matched

\* C16: a blank line taken with the accumulator non-empty is handed to the
\* suppression check as the last line of the block, which is appended to the
\* output when no pattern matches and dropped with its blank line otherwise;
\* a blank line taken with the accumulator empty goes to the output as it is.
C16_BlankLineBelongsToItsBlock ==
    [][ (TakesLine /\ Strip(lines[i]) = <<>>) =>
          IF current_leak # <<>>
          THEN LET block_str == Join(Append(current_leak, lines[i]))
               IN /\ closed' = Append(closed, [ first |-> i - Len(current_leak),
                                                last |-> i,
                                                text |-> block_str,
                                                by |-> "blank" ])
                  /\ filtered_output' =
                       IF AnySuppression(block_str) THEN filtered_output
                       ELSE Append(filtered_output, block_str)
                  /\ current_leak' = <<>>
          ELSE /\ filtered_output' = Append(filtered_output, lines[i])
               /\ closed' = closed
               /\ current_leak' = <<>> ]_vars

\* C16 witness: a finished run in which a suppressed block took its blank
\* line with it and a later blank line passed through.
C16_Witness ==
    /\ Completed
    /\ \E d \in Matched : closed[d].by = "blank" /\ closed[d].last < Len(lines)
                          /\ Strip(lines[closed[d].last + 1]) = <<>>
    /\ Len(filtered_output) = 1 /\ Strip(filtered_output[1]) = <<>>

\* C17: the script ends; it ends with exactly one status, which is 0, 1 or
\* 130, and has none before; every step of the loop takes the next line, and
\* the loop is left when the last line has been taken.
C17_TerminatesWithOneStatus ==
    /\ <>Terminated
    /\ [](/\ Len(exit_code) = (IF Terminated THEN 1 ELSE 0)
          /\ \A k \in 1..Len(exit_code) : exit_code[k] \in {0, 1, 130})
    /\ [][ /\ ~Terminated
           /\ (pc = "loop" /\ pc' = "loop") => i <= Len(lines) /\ i' = i + 1
           /\ (pc = "loop" /\ pc' = "join") => i = Len(lines) + 1 /\ i' = i
           /\ pc # "loop" => (i' = i \/ (pc = "wait" /\ i' = 1)) ]_vars

\* C17 witness: a run of the longest input ended by the exit of lines 81-84.
C17_Witness ==
    /\ Completed
    /\ i = MaxFairLines + 1
    /\ exit_code = <<1>>

\* C18: every step of the loop appends the line it takes to the accumulator
\* (which the same step may close) or to the output sequence; the step that
\* neither accumulates nor closes is taken only with the accumulator empty
\* and appends the line to the output; so in a finished run the only input
\* lines missing from the output are those of suppressed blocks.
C18_NoLineSilentlyDiscarded ==
    /\ [][ TakesLine =>
              /\ \/ current_leak' = Append(current_leak, lines[i])
                 \/ current_leak' = <<lines[i]>>
                 \/ /\ Len(closed') = Len(closed) + 1
                    /\ closed'[Len(closed')].last = i
                    /\ closed'[Len(closed')].text = Join(Append(current_leak, lines[i]))
                 \/ filtered_output' = Append(filtered_output, lines[i])
              /\ (current_leak' = current_leak /\ closed' = closed) =>
                    /\ current_leak = <<>>
                    /\ filtered_output' = Append(filtered_output, lines[i]) ]_vars
    /\ [](Completed => Len(LinesOf(filtered_output)) = Len(Without(Matched)))

\* C18 witness: a finished run with pass-through lines, a suppressed block
\* and a kept block.
C18_Witness ==
    /\ Completed
    /\ Len(closed) >= 2 /\ Matched # {} /\ Cardinality(Matched) < Len(closed)
    /\ Len(filtered_output) >= 2
    /\ Len(Without(Matched)) < Len(lines)

\* C19: between the steps of the loop the accumulator is the run of input
\* lines that ends just before the next line, none of them blank, and it is
\* empty right after a blank line was taken; a block handed to the
\* suppression check holds a blank line only as its last line and only when a
\* blank line closed it.
C19_AccumulatorHoldsNoBlankLine ==
    /\ pc = "loop" =>
          /\ Len(current_leak) < i
          /\ current_leak = SubSeq(lines, i - Len(current_leak), i - 1)
          /\ \A k \in 1..Len(current_leak) : Strip(current_leak[k]) # <<>>
          /\ (i > 1 /\ Strip(lines[i - 1]) = <<>>) => current_leak = <<>>
    /\ \A d \in 1..Len(closed) :
          LET ls == Split(closed[d].text)
          IN \A k \in 1..Len(ls) :
                Strip(ls[k]) = <<>> => k = Len(ls) /\ k > 1 /\ closed[d].by = "blank"

\* C19 witness: in the loop, a block closed by a whitespace-only line behind
\* and two lines in the accumulator.
C19_Witness ==
    /\ pc = "loop"
    /\ Len(current_leak) = 2
    /\ \E d \in 1..Len(closed) : closed[d].by = "blank" /\ lines[closed[d].last] = <<SP>>

====
